---- MODULE Spec2Model ----
(***************************************************************************)
(* Model of docker-ansible.py: one invocation of main() is a "pass" that   *)
(* lists the containers of the docker runtime, keeps those matching the    *)
(* desired image/command, and drives create/start/stop/wait/kill/restart/  *)
(* remove calls according to the requested state.  Every call to the       *)
(* docker client is one step of the model: the call may succeed or raise,  *)
(* and what the runtime does with the container is the runtime's choice.   *)
(***************************************************************************)
EXTENDS Integers, Sequences, FiniteSets, TLC

VARIABLES
    rt,                 \* the runtime: containers in listing order
    rt0,                \* the runtime as it was when the pass began
    pc,                 \* position of main(): idle, a loop of calls, done, fatal
    i,                  \* index of the loop the pass is in
    state, count, image, command,   \* module.params
    running_containers, \* line 254
    delta,              \* line 273
    made,               \* list comprehension of line 298/303 under construction
    containers,         \* line 293
    details,            \* lines 307, 324, 345, 363, 381, 397
    started, stopped, killed, restarted,   \* lines 274-277
    changed,            \* line 252
    container_summary,  \* line 253
    log,                \* the calls issued to the docker client in this pass
    result,             \* what module.exit_json reported
    prev,               \* how the previous pass with these parameters ended
    config,             \* volumes, memory_limit, lxc_conf and the runtime's version
    memory_limit        \* line 230

vars == <<rt, rt0, pc, i, state, count, image, command, running_containers,
          delta, made, containers, details, started, stopped, killed,
          restarted, changed, container_summary, log, result, prev, config,
          memory_limit>>

\* ------------------------------------------------------------------ bounds
MaxInit == 2        \* containers the runtime holds before the first pass
MaxCount == 2       \* largest count parameter
MaxContainers == 4  \* capacity of the runtime: create fails beyond it
MaxSize == 12       \* largest number of a memory size string

\* ------------------------------------------------------------ value domains
States == {"present", "absent", "stop", "kill", "restart"}
NoCommand == <<>>
DesiredImages == {<<"a", ":", "2">>}
DesiredCommands == {NoCommand, <<" ", "x">>}
OtherImages == {<<"a", ":", "1">>, <<"b", ":", "2">>}
OtherCommands == {<<"x", " ">>, <<"y">>}
DefaultCommand == <<"y">>
NoResult == [reported |-> FALSE]
FailedResult == [reported |-> TRUE, failed |-> TRUE, changed |-> FALSE]

\* ------------------------------------------------------------ python helpers
Abs(n) == IF n < 0 THEN 0 - n ELSE n

Min(a, b) == IF a < b THEN a ELSE b

Max(a, b) == IF a < b THEN b ELSE a

\* a slice that stops one element early
PySliceDropsLast(s, k) ==
    LET n == IF k < 0 THEN Max(Len(s) + k, 0) ELSE Min(k, Len(s))
    IN  SubSeq(s, 1, n - 1)

\* s[0:k] of Python: a negative k counts from the end
PySlice(s, k) ==
    LET n == IF k < 0 THEN Max(Len(s) + k, 0) ELSE Min(k, Len(s))
    IN  SubSeq(s, 1, n)

\* s.split(":")[0]
RECURSIVE SplitFirst(_)
SplitFirst(s) ==
    IF s = <<>> \/ Head(s) = ":" THEN <<>>
    ELSE <<Head(s)>> \o SplitFirst(Tail(s))

\* s.strip()
RECURSIVE LStrip(_)
LStrip(s) == IF s # <<>> /\ Head(s) = " " THEN LStrip(Tail(s)) ELSE s

RECURSIVE RStrip(_)
RStrip(s) ==
    IF s # <<>> /\ s[Len(s)] = " " THEN RStrip(SubSeq(s, 1, Len(s) - 1)) ELSE s

Strip(s) == RStrip(LStrip(s))

Range(s) == {s[k] : k \in 1..Len(s)}

Ids(s) == {s[k].Id : k \in 1..Len(s)}

\* ------------------------------------------------------------ parameters
DigitChars == <<"0", "1", "2", "3", "4", "5", "6", "7", "8", "9">>

IsDigit(c) == \E k \in 1..Len(DigitChars) : DigitChars[k] = c

DigitVal(c) == (CHOOSE k \in 1..Len(DigitChars) : DigitChars[k] = c) - 1

\* code point of a character of a version string
Ord(c) == IF c = "." THEN 46 ELSE 48 + DigitVal(c)

\* a < b of two Python strings
RECURSIVE StrLess(_, _)
StrLess(a, b) ==
    IF b = <<>> THEN FALSE
    ELSE IF a = <<>> THEN TRUE
    ELSE IF Head(a) # Head(b) THEN Ord(Head(a)) < Ord(Head(b))
    ELSE StrLess(Tail(a), Tail(b))

\* s.split(sep) of a one-character separator
RECURSIVE SplitOn(_, _)
SplitOn(s, sep) ==
    IF \A k \in 1..Len(s) : s[k] # sep THEN <<s>>
    ELSE LET at == CHOOSE k \in 1..Len(s) :
                       s[k] = sep /\ \A j \in 1..(k - 1) : s[j] # sep
         IN  <<SubSeq(s, 1, at - 1)>> \o SplitOn(SubSeq(s, at + 1, Len(s)), sep)

\* s[-n:] and s[:-n]
LastChars(s, n) == SubSeq(s, Max(Len(s) - n, 0) + 1, Len(s))

ButLastChars(s, n) == SubSeq(s, 1, Len(s) - n)

\* int(s) of a decimal string; -1 stands for the ValueError
RECURSIVE ParseInt(_)
ParseInt(s) ==
    IF s = <<>> \/ \E k \in 1..Len(s) : ~IsDigit(s[k]) THEN 0 - 1
    ELSE IF Len(s) = 1 THEN DigitVal(s[1])
    ELSE 10 * ParseInt(ButLastChars(s, 1)) + DigitVal(s[Len(s)])

\* line 155
suffixes == <<<<"B">>, <<"K", "B">>, <<"M", "B">>, <<"G", "B">>, <<"T", "B">>, <<"P", "B">>>>

\* an integer as its digits in base 1024, least significant first: n * 1024 ** e
\* for n < 1024 is e zeros followed by n
Times1024Pow(n, e) == [k \in 1..(e + 1) |-> IF k = e + 1 THEN n ELSE 0]

IntParam(n) == [kind |-> "int", val |-> Times1024Pow(n, 0), text |-> <<>>]

StrParam(s) == [kind |-> "str", val |-> <<>>, text |-> s]

Raised(what) == [kind |-> what, val |-> <<>>, text |-> <<>>]

\* a loop over suffixes[1:] that starts counting at 0
RECURSIVE SuffixLoopFromZero(_, _)
SuffixLoopFromZero(number, ix) ==
    IF ix > Len(suffixes) - 1 THEN Raised("exit")
    ELSE IF LastChars(number, Len(suffixes[ix + 1])) = suffixes[ix + 1]
         THEN IF ParseInt(ButLastChars(number, Len(suffixes[ix + 1]))) < 0
              THEN Raised("ValueError")
              ELSE [IntParam(0) EXCEPT !.val =
                       Times1024Pow(ParseInt(ButLastChars(number, Len(suffixes[ix + 1]))), ix - 1)]
         ELSE SuffixLoopFromZero(number, ix + 1)

\* lines 162-169: the loop over suffixes[1:], then the failure exit
RECURSIVE SuffixLoop(_, _)
SuffixLoop(number, ix) ==
    IF ix > Len(suffixes) - 1 THEN Raised("exit")
    ELSE IF LastChars(number, Len(suffixes[ix + 1])) = suffixes[ix + 1]
         THEN IF ParseInt(ButLastChars(number, Len(suffixes[ix + 1]))) < 0
              THEN Raised("ValueError")
              ELSE [IntParam(0) EXCEPT !.val =
                       Times1024Pow(ParseInt(ButLastChars(number, Len(suffixes[ix + 1]))), ix)]
         ELSE SuffixLoop(number, ix + 1)

\* lines 154-169; number is an int or a str parameter
human_to_bytes(number) ==
    IF number.kind = "int" THEN number
    ELSE LET s == number.text
         IN  IF s = <<>> THEN Raised("IndexError")
             ELSE IF s[Len(s)] = suffixes[1][1] /\ Len(s) < 2 THEN Raised("IndexError")
             ELSE IF s[Len(s)] = suffixes[1][1] /\ IsDigit(s[Len(s) - 1])
                  THEN StrParam(ButLastChars(s, 1))
             ELSE SuffixLoop(s, 1)

\* lines 222-227 and 244-249: parts[1] of every token exists
TokensSplit(param) ==
    param = <<>> \/ \A t \in Range(SplitOn(param, " ")) : Len(SplitOn(t, ":")) >= 2

NoVersion == <<"?">>

MinVersion == <<"0", ".", "3", ".", "3">>

\* a version test that also rejects the minimum version itself
VersionNotAbove(v) == v # NoVersion /\ (v = MinVersion \/ StrLess(v, MinVersion))

\* line 263
VersionTooOld(v) == v # NoVersion /\ StrLess(v, MinVersion)

\* lines 221-264 in the order of the code: how the invocation gets past its
\* parameters and the version of the runtime
ConfigOutcome(cfg) ==
    IF ~TokensSplit(cfg.volumes) THEN "IndexError"
    ELSE IF human_to_bytes(cfg.memory_limit).kind \notin {"int", "str"}
         THEN human_to_bytes(cfg.memory_limit).kind
    ELSE IF ~TokensSplit(cfg.lxc_conf) THEN "IndexError"
    ELSE IF VersionTooOld(cfg.version) THEN "fail_json"
    ELSE "ok"

GoodConfig ==
    [volumes |-> <<"a", ":", "b">>,
     memory_limit |-> StrParam(<<"1", "M", "B">>),
     lxc_conf |-> <<"k", ":", "v">>,
     version |-> MinVersion]

Configs ==
    {GoodConfig,
     [GoodConfig EXCEPT !.volumes = <<"a", ":", "b", " ", "c">>],
     [GoodConfig EXCEPT !.memory_limit = StrParam(<<"1", "0", "X", "B">>)],
     [GoodConfig EXCEPT !.lxc_conf = <<"k", "v">>],
     [GoodConfig EXCEPT !.version = <<"0", ".", "3", ".", "2">>],
     [GoodConfig EXCEPT !.version = <<"0", ".", "1", "0", ".", "0">>]}

\* ------------------------------------------------------------ the runtime
Container(id, img, cmd, run) ==
    [Id |-> id, Image |-> img, Command |-> cmd, Running |-> run]

\* the identifier the runtime gives a new container: one no container has
NewId(r) == CHOOSE n \in 1..(Len(r) + 1) : n \notin Ids(r)

Lookup(r, id) == CHOOSE c \in Range(r) : c.Id = id

SetRunning(r, id, run) ==
    [k \in 1..Len(r) |-> IF r[k].Id = id THEN [r[k] EXCEPT !.Running = run] ELSE r[k]]

Without(r, id) == SelectSeq(r, LAMBDA c : c.Id # id)

\* client.inspect_container(id) through inspect_container
Entity(c) == [kind |-> "entity", Id |-> c.Id, Running |-> c.Running, items |-> <<>>]

ListItem(ds) == [kind |-> "list", Id |-> 0, Running |-> FALSE, items |-> ds]

\* an inspection that reports every container as running
InspectReportsRunning(r, id) == [Entity(Lookup(r, id)) EXCEPT !.Running = TRUE]

inspect_container(r, id) == Entity(Lookup(r, id))

InspectAll(r, s) == [k \in 1..Len(s) |-> inspect_container(r, s[k].Id)]

\* ------------------------------------------------------------ the call log
Call(op, id, res) == [op |-> op, id |-> id, res |-> res]

Lifecycle == {"create", "pull", "start", "stop", "wait", "kill", "restart", "remove"}

Mutating == {"create", "start", "stop", "kill", "restart", "remove"}

Calls(ops) == SelectSeq(log, LAMBDA c : c.op \in ops)

CallsTo(ops, id) == SelectSeq(log, LAMBDA c : c.op \in ops /\ c.id = id)

AllOk == \A k \in 1..Len(log) : log[k].res = "ok"

\* a filter that compares the image references whole, tag included
MatchesWholeImage(each, img, cmd) ==
    /\ each.Image = img
    /\ (cmd = NoCommand \/ Strip(each.Command) = Strip(cmd))

\* line 268
Matches(each, img, cmd) ==
    /\ SplitFirst(each.Image) = SplitFirst(img)
    /\ (cmd = NoCommand \/ Strip(each.Command) = Strip(cmd))

\* a loop that takes every listed container
MatchingAll(r, img, cmd) == r

Matching(r, img, cmd) == SelectSeq(r, LAMBDA c : Matches(c, img, cmd))

\* lines 310, 327, 348, 366, 384, 400
CountRunning(s, run) == Len(SelectSeq(s, LAMBDA d : d.Running = run))

\* n references to the same list
Repeated(x, n) == [k \in 1..n |-> x]

\* the calls one batch of inspections issues: all of s when f = 0, else the
\* first f of them, the f-th raising
InspectLog(s, f) ==
    [k \in 1..(IF f = 0 THEN Len(s) ELSE f) |->
        Call("inspect", s[k].Id, IF k = f THEN "err" ELSE "ok")]

\* ------------------------------------------------------------ the pass
\* a selection of the last abs(delta) containers instead of the first
SelectedFromEnd ==
    IF state = "present"
    THEN SubSeq(running_containers,
                Len(running_containers) - Min(Abs(delta), Len(running_containers)) + 1,
                Len(running_containers))
    ELSE running_containers

\* the containers the stop, wait, kill and restart loops run over
\* (lines 315, 320, 336, 341, 355, 359, 371, 377, 392)
Selected ==
    IF state = "present" THEN PySlice(running_containers, Abs(delta))
    ELSE running_containers

\* the containers inspected after the loops (lines 324, 345, 363, 381, 397)
Inspected ==
    IF state = "present" THEN PySlice(running_containers, Abs(delta))
    ELSE PySlice(running_containers, delta)

\* a branch for absent that waits without stopping first
FirstPcSkipsStop(st, d) ==
    CASE st = "present" /\ d > 0 -> "create"
      [] st = "present" /\ d < 0 -> "stop"
      [] st = "present" /\ d = 0 -> "exit"
      [] st = "absent" -> "wait"
      [] st = "stop" -> "stop"
      [] st = "kill" -> "kill"
      [] st = "restart" -> "restart"

\* the branch main() takes at lines 281-391
FirstPc(st, d) ==
    CASE st = "present" /\ d > 0 -> "create"
      [] st = "present" /\ d < 0 -> "stop"
      [] st = "present" /\ d = 0 -> "exit"
      [] st \in {"absent", "stop"} -> "stop"
      [] st = "kill" -> "kill"
      [] st = "restart" -> "restart"

\* a delta that is one too large
DeltaOffByOne(cnt, n) == cnt - n + 1

\* line 273
Delta(cnt, n) == cnt - n

\* an except clause that also guards the retried creation
AlwaysPull(p) == "pull"

\* lines 297-303: the except clause guards the first list comprehension only
AfterCreateFails(p) == IF p = "create" THEN "pull" ELSE "fatal"

\* an except clause that swallows every exception of the wait loop
CatchesEverything(res) == "inspect"

\* lines 319-322, 340-343, 358-361, 376-379: except ValueError: pass
AfterWaitRaises(res) == IF res = "ValueError" THEN "inspect" ELSE "fatal"

\* the containers of other images are all alike to the module: one command
\* is enough for them; the containers found at the first invocation are
\* running ones
TypeOfInit ==
    {c \in [Id : {0}, Image : OtherImages, Command : OtherCommands,
            Running : {TRUE}] :
        SplitFirst(c.Image) \in {SplitFirst(img) : img \in DesiredImages}
        \/ c.Command = <<"x", " ">>}

Init ==
    /\ \E n \in 0..MaxInit : \E s \in [1..n -> TypeOfInit] :
           rt = [k \in 1..n |-> [s[k] EXCEPT !.Id = k]]
    /\ rt0 = rt
    /\ pc = "idle"
    /\ i = 1
    /\ state = "present"
    /\ count = 1
    /\ image = <<>>
    /\ command = NoCommand
    /\ running_containers = <<>>
    /\ delta = 0
    /\ made = <<>>
    /\ containers = <<>>
    /\ details = <<>>
    /\ started = 0
    /\ stopped = 0
    /\ killed = 0
    /\ restarted = 0
    /\ changed = FALSE
    /\ container_summary = <<>>
    /\ log = <<>>
    /\ result = NoResult
    /\ prev = "none"
    /\ config = GoodConfig
    /\ memory_limit = IntParam(0)

\* lines 214-277: read the parameters, check the version of the runtime, list
\* the containers, keep and inspect the matching ones, compute delta; f > 0:
\* the f-th inspection raises
Enter(st, cnt, img, cmd, cfg, f) ==
    LET outcome == ConfigOutcome(cfg)
        m == IF outcome = "ok" THEN Matching(rt, img, cmd) ELSE <<>>
        d == Delta(cnt, Len(m))
    IN  /\ f \in 0..Len(m)
        /\ config' = cfg
        /\ memory_limit' = IF TokensSplit(cfg.volumes)
                           THEN human_to_bytes(cfg.memory_limit) ELSE IntParam(0)
        /\ state' = st
        /\ count' = cnt
        /\ image' = img
        /\ command' = cmd
        /\ rt0' = rt
        /\ log' = InspectLog(m, f)
        /\ running_containers' = IF f = 0 THEN InspectAll(rt, m) ELSE <<>>
        /\ delta' = IF outcome = "ok" /\ f = 0 THEN d ELSE 0
        /\ pc' = IF outcome # "ok" THEN "failed"
                 ELSE IF f = 0 THEN FirstPc(st, d) ELSE "fatal"
        /\ i' = 1
        /\ made' = <<>>
        /\ containers' = <<>>
        /\ details' = <<>>
        /\ started' = 0
        /\ stopped' = 0
        /\ killed' = 0
        /\ restarted' = 0
        /\ changed' = FALSE
        /\ container_summary' = <<>>
        /\ result' = IF outcome \in {"exit", "fail_json"}
                     THEN FailedResult ELSE NoResult
        /\ UNCHANGED rt

\* the module is invoked
Begin(st, cnt, img, cmd, cfg, f) ==
    /\ pc = "idle"
    /\ Enter(st, cnt, img, cmd, cfg, f)
    /\ prev' = "none"

\* the module has reported and is invoked again with the same parameters
Rerun(f) ==
    /\ pc = "done"
    /\ Enter(state, count, image, command, config, f)
    /\ prev' = IF AllOk THEN "clean" ELSE "dirty"

params == <<state, count, image, command, prev, rt0, config, memory_limit>>

counters == <<started, stopped, killed, restarted>>

lists == <<running_containers, made, containers, details, container_summary>>

\* a call raises and nothing catches it: the interpreter ends main()
Fatal(op, id) ==
    /\ pc' = "fatal"
    /\ log' = Append(log, Call(op, id, "err"))
    /\ UNCHANGED <<rt, i, delta, changed, result, params, counters, lists>>

\* lines 298 and 303: one create_container call of the list comprehension
Create(ok) ==
    /\ pc \in {"create", "retry"}
    /\ i <= delta
    /\ IF ok
       THEN LET id == NewId(rt)
                cmd == IF command = NoCommand THEN DefaultCommand ELSE command
            IN  /\ Len(rt) < MaxContainers
                /\ rt' = Append(rt, Container(id, image, cmd, FALSE))
                /\ log' = Append(log, Call("create", id, "ok"))
                /\ made' = Append(made, [Id |-> id])
                /\ IF i = delta
                   THEN /\ containers' = made'
                        /\ changed' = TRUE
                        /\ pc' = "start"
                        /\ i' = 1
                   ELSE /\ i' = i + 1
                        /\ UNCHANGED <<containers, changed, pc>>
                /\ UNCHANGED <<delta, result, params, counters,
                               running_containers, details, container_summary>>
       ELSE /\ pc' = AfterCreateFails(pc)
            /\ log' = Append(log, Call("create", 0, "err"))
            /\ made' = <<>>
            /\ UNCHANGED <<rt, i, delta, changed, result, params, counters,
                           running_containers, containers, details,
                           container_summary>>

\* lines 301-302
Pull(ok) ==
    /\ pc = "pull"
    /\ IF ok
       THEN /\ log' = Append(log, Call("pull", 0, "ok"))
            /\ changed' = TRUE
            /\ pc' = "retry"
            /\ i' = 1
            /\ UNCHANGED <<rt, delta, result, params, counters, lists>>
       ELSE Fatal("pull", 0)

\* lines 305-306: the container may or may not be running after its start
\* (run); a start that raises has one outcome, taken with run = TRUE
Start(ok, run) ==
    /\ pc = "start"
    /\ i <= Len(containers)
    /\ LET id == containers[i].Id
       IN  IF ok
           THEN /\ rt' = SetRunning(rt, id, run)
                /\ log' = Append(log, Call("start", id, "ok"))
                /\ i' = i + 1
                /\ pc' = IF i = Len(containers) THEN "inspect_new" ELSE "start"
                /\ UNCHANGED <<delta, changed, result, params, counters, lists>>
           ELSE run /\ Fatal("start", id)

\* lines 307-311
InspectNew(f) ==
    /\ pc = "inspect_new"
    /\ f \in 0..Len(containers)
    /\ log' = log \o InspectLog(containers, f)
    /\ IF f = 0
       THEN LET ds == InspectAll(rt, containers)
            IN  /\ details' = ds
                /\ running_containers' =
                       running_containers \o Repeated(ListItem(ds), Len(ds))
                /\ started' = started + CountRunning(ds, TRUE)
                /\ pc' = "exit"
       ELSE /\ pc' = "fatal"
            /\ UNCHANGED <<details, running_containers, started>>
    /\ UNCHANGED <<rt, i, delta, changed, result, params, stopped, killed,
                   restarted, made, containers, container_summary>>

\* lines 174-176 (_stop_containers), 371-372 and 392-393: one stop, kill or
\* restart call of the loop; what the container does is the runtime's choice
Signal(ok, run) ==
    /\ pc \in {"stop", "kill", "restart"}
    /\ i <= Len(Selected)
    /\ LET id == Selected[i].Id
       IN  IF ok
           THEN /\ rt' = SetRunning(rt, id, run)
                /\ log' = Append(log, Call(pc, id, "ok"))
                /\ i' = i + 1
                /\ UNCHANGED <<pc, delta, changed, result, params, counters, lists>>
           ELSE run /\ Fatal(pc, id)

\* lines 317, 338, 356, 374, 395
SetChanged ==
    /\ pc \in {"stop", "kill", "restart"}
    /\ i > Len(Selected)
    /\ changed' = TRUE
    /\ pc' = IF state = "restart" \/ Selected = <<>> THEN "inspect" ELSE "wait"
    /\ i' = 1
    /\ UNCHANGED <<rt, log, delta, result, params, counters, lists>>

\* lines 178-180 (_wait_containers) inside try/except ValueError: a wait
\* returns once the container has exited; a ValueError leaves the loop
Wait(res) ==
    /\ pc = "wait"
    /\ i <= Len(Selected)
    /\ LET id == Selected[i].Id
       IN  CASE res = "ok" ->
                  /\ rt' = SetRunning(rt, id, FALSE)
                  /\ log' = Append(log, Call("wait", id, "ok"))
                  /\ i' = i + 1
                  /\ pc' = IF i = Len(Selected) THEN "inspect" ELSE "wait"
                  /\ UNCHANGED <<delta, changed, result, params, counters, lists>>
             [] res # "ok" ->
                  /\ log' = Append(log, Call("wait", id, res))
                  /\ pc' = AfterWaitRaises(res)
                  /\ UNCHANGED <<rt, i, delta, changed, result, params, counters, lists>>

\* a kill branch that counts into stopped
CountedKillAsStopped(st) ==
    CASE st \in {"present", "absent", "stop", "kill"} -> "stopped"
      [] st = "restart" -> "restarted"

\* the counter the branch of st increments after its inspections
\* (lines 328, 349, 367, 385, 401)
Counted(st) ==
    CASE st \in {"present", "absent", "stop"} -> "stopped"
      [] st = "kill" -> "killed"
      [] st = "restart" -> "restarted"

\* lines 324-328, 345-349, 363-367, 381-385, 397-401
InspectSelected(f) ==
    /\ pc = "inspect"
    /\ f \in 0..Len(Inspected)
    /\ log' = log \o InspectLog(Inspected, f)
    /\ IF f = 0
       THEN LET ds == InspectAll(rt, Inspected)
                up == CountRunning(ds, TRUE)
                down == CountRunning(ds, FALSE)
            IN  /\ details' = ds
                /\ running_containers' =
                       IF state = "present"
                       THEN SelectSeq(running_containers,
                                      LAMBDA c : c.Id \notin Ids(ds))
                       ELSE running_containers
                /\ container_summary' =
                       IF state = "present" THEN container_summary
                       ELSE container_summary \o Repeated(ListItem(ds), Len(ds))
                /\ stopped' = IF Counted(state) = "stopped"
                              THEN stopped + down ELSE stopped
                /\ killed' = IF Counted(state) = "killed"
                             THEN killed + down ELSE killed
                /\ restarted' = IF Counted(state) = "restarted"
                                THEN restarted + up ELSE restarted
                /\ pc' = IF state \in {"stop", "restart"} \/ ds = <<>>
                         THEN "exit" ELSE "remove"
       ELSE /\ pc' = "fatal"
            /\ UNCHANGED <<details, running_containers, container_summary,
                           stopped, killed, restarted>>
    /\ i' = 1
    /\ UNCHANGED <<rt, delta, changed, result, params, started, made, containers>>

\* lines 329-330, 350-351, 387-388
Remove(ok) ==
    /\ pc = "remove"
    /\ i <= Len(details)
    /\ LET id == details[i].Id
       IN  IF ok
           THEN /\ rt' = Without(rt, id)
                /\ log' = Append(log, Call("remove", id, "ok"))
                /\ i' = i + 1
                /\ pc' = IF i = Len(details) THEN "exit" ELSE "remove"
                /\ UNCHANGED <<delta, changed, result, params, counters, lists>>
           ELSE Fatal("remove", id)

\* lines 332 and 403-406
Exit ==
    /\ pc = "exit"
    /\ container_summary' =
           IF state = "present" THEN running_containers ELSE container_summary
    /\ result' = [reported |-> TRUE, failed |-> FALSE, changed |-> changed,
                  started |-> started, stopped |-> stopped, killed |-> killed,
                  restarted |-> restarted, facts |-> container_summary']
    /\ pc' = "done"
    /\ UNCHANGED <<rt, log, i, delta, changed, params, counters,
                   running_containers, made, containers, details>>

Next ==
    \/ /\ pc = "idle"
       /\ \E st \in States, cnt \in 0..MaxCount, img \in DesiredImages,
             cmd \in DesiredCommands, cfg \in Configs, f \in 0..MaxContainers :
              Begin(st, cnt, img, cmd, cfg, f)
    \/ /\ pc = "done"
       /\ \E f \in 0..MaxContainers : Rerun(f)
    \/ \E ok \in BOOLEAN : Create(ok)
    \/ \E ok \in BOOLEAN : Pull(ok)
    \/ \E ok, run \in BOOLEAN : Start(ok, run)
    \/ \E f \in 0..MaxContainers : InspectNew(f)
    \/ \E ok, run \in BOOLEAN : Signal(ok, run)
    \/ SetChanged
    \/ \E res \in {"ok", "ValueError", "err"} : Wait(res)
    \/ \E f \in 0..MaxContainers : InspectSelected(f)
    \/ \E ok \in BOOLEAN : Remove(ok)
    \/ Exit

Spec == Init /\ [][Next]_vars

\* ------------------------------------------------------------ sizes alone
\* the decimal string of n
RECURSIVE Digits(_)
Digits(n) ==
    IF n < 10 THEN <<DigitChars[n + 1]>>
    ELSE Digits(n \div 10) \o <<DigitChars[(n % 10) + 1]>>

SizeInputs ==
    {IntParam(n) : n \in 0..MaxSize}
    \cup {StrParam(Digits(n) \o suffixes[k]) : n \in 0..MaxSize, k \in 1..Len(suffixes)}
    \cup {StrParam(Digits(n) \o <<"X", "B">>) : n \in 0..MaxSize}

InitSize ==
    /\ rt = <<>>
    /\ rt0 = <<>>
    /\ pc = "size"
    /\ i = 1
    /\ state = "present"
    /\ count = 1
    /\ image = <<>>
    /\ command = NoCommand
    /\ running_containers = <<>>
    /\ delta = 0
    /\ made = <<>>
    /\ containers = <<>>
    /\ details = <<>>
    /\ started = 0
    /\ stopped = 0
    /\ killed = 0
    /\ restarted = 0
    /\ changed = FALSE
    /\ container_summary = <<>>
    /\ log = <<>>
    /\ result = NoResult
    /\ prev = "none"
    /\ \E m \in SizeInputs : config = [GoodConfig EXCEPT !.memory_limit = m]
    /\ memory_limit = IntParam(0)

\* line 230
Normalize ==
    /\ pc = "size"
    /\ memory_limit' = human_to_bytes(config.memory_limit)
    /\ pc' = "sized"
    /\ UNCHANGED <<rt, rt0, i, state, count, image, command, running_containers,
                   delta, made, containers, details, started, stopped, killed,
                   restarted, changed, container_summary, log, result, prev,
                   config>>

NextSize == Normalize

SpecSize == InitSize /\ [][NextSize]_vars

\* ------------------------------------------------------------ properties
\* the matching set computed at the start of the pass, in listing order
M0 == Matching(rt0, image, command)

\* the matching containers the runtime holds now
MNow == Matching(rt, image, command)

InPass == pc # "idle"

IdsOf(calls) == [k \in 1..Len(calls) |-> calls[k].id]

CountersZero(r) ==
    r.started = 0 /\ r.stopped = 0 /\ r.killed = 0 /\ r.restarted = 0

\* C1: state=present converges: a pass in which every call succeeds ends with
\* exactly count matching containers in the runtime, and the pass that follows
\* such a pass with the same parameters issues no lifecycle call and reports
\* changed=false.
C1_PresentConverges ==
    /\ (pc = "done" /\ state = "present" /\ AllOk) => Len(MNow) = count
    /\ (InPass /\ state = "present" /\ prev = "clean") =>
          /\ Calls(Lifecycle) = <<>>
          /\ rt = rt0
          /\ pc # "fatal" => pc \in {"exit", "done"}
          /\ pc = "done" => result.changed = FALSE

\* a second pass ran to its end after a clean pass that had created containers
C1_Witness ==
    /\ pc = "done" /\ state = "present" /\ prev = "clean" /\ count = MaxCount
    /\ \E c \in Range(rt) : c.Image \in DesiredImages

\* C3: state=present with count equal to the number of matching containers
\* issues no create, pull, start, stop, wait, kill, restart or remove call,
\* leaves the runtime as it was and reports changed=false with all four
\* counters 0.
C3_NoOpWhenCountMet ==
    (InPass /\ state = "present" /\ count = Len(M0)) =>
        /\ Calls(Lifecycle) = <<>>
        /\ rt = rt0
        /\ pc = "done" =>
              /\ result.changed = FALSE
              /\ result.failed = FALSE
              /\ CountersZero(result)

C3_Witness ==
    /\ pc = "done" /\ state = "present" /\ count = MaxCount /\ Len(M0) = MaxCount
    /\ Len(rt) > Len(M0)

CreatedIds == Ids(rt) \ Ids(rt0)

\* C4: state=present with delta = count - len(matching) > 0 and every call
\* succeeding issues exactly delta creates and exactly delta starts, one per
\* created container and none to a container that existed before, and reports
\* changed=true, stopped=0 and started = the created containers found running.
C4_ScaleUp ==
    (pc = "done" /\ state = "present" /\ count > Len(M0) /\ AllOk) =>
        /\ Len(Calls({"create"})) = count - Len(M0)
        /\ Len(Calls({"start"})) = count - Len(M0)
        /\ Cardinality(CreatedIds) = count - Len(M0)
        /\ \A id \in CreatedIds : Len(CallsTo({"start"}, id)) = 1
        /\ \A id \in Ids(rt0) : CallsTo({"start"}, id) = <<>>
        /\ result.changed = TRUE
        /\ result.stopped = 0
        /\ result.started =
              Cardinality({id \in CreatedIds : Lookup(rt, id).Running})

\* two containers were created and started, one of them is not running
C4_Witness ==
    /\ pc = "done" /\ state = "present" /\ AllOk
    /\ count - Len(M0) = 2 /\ rt0 # <<>>
    /\ result.started = 1

\* the first abs(delta) matching containers, in listing order
Surplus == SubSeq(M0, 1, Len(M0) - count)

\* C5: state=present with delta < 0 stops and removes exactly the first
\* abs(delta) matching containers in listing order, issues no stop, wait or
\* remove to the others, and reports changed=true, started=0 and stopped = the
\* selected containers found not running after the stop.
C5_ScaleDown ==
    (pc = "done" /\ state = "present" /\ count < Len(M0)) =>
        /\ IdsOf(Calls({"stop"})) = IdsOf([k \in 1..Len(Surplus) |-> [id |-> Surplus[k].Id]])
        /\ IdsOf(Calls({"remove"})) = IdsOf(Calls({"stop"}))
        /\ \A c \in Range(Calls({"wait"})) : c.id \in Ids(Surplus)
        /\ Ids(rt) = Ids(rt0) \ Ids(Surplus)
        /\ \A c \in Range(rt) : c = Lookup(rt0, c.Id)
        /\ IdsOf([k \in 1..Len(details) |-> [id |-> details[k].Id]]) = IdsOf(Calls({"stop"}))
        /\ result.changed = TRUE
        /\ result.started = 0
        /\ result.stopped = CountRunning(details, FALSE)

\* the first of two matching containers was removed while still running, the
\* second was left alone
C5_Witness ==
    /\ pc = "done" /\ state = "present" /\ count = 1 /\ Len(M0) = 2
    /\ result.stopped = 0

FailedCreates == SelectSeq(log, LAMBDA c : c.op = "create" /\ c.res = "err")

\* position of the pull in the log, 0 when none was issued
PullAt ==
    IF \E k \in 1..Len(log) : log[k].op = "pull"
    THEN CHOOSE k \in 1..Len(log) : log[k].op = "pull"
    ELSE 0

CreatesAfterPull ==
    IF PullAt = 0 THEN <<>>
    ELSE SelectSeq(SubSeq(log, PullAt + 1, Len(log)), LAMBDA c : c.op = "create")

\* C7: in a state=present pass with delta > 0, a failed create is followed by
\* exactly one pull, changed is true once the pull has returned, and the
\* creation of the delta containers is attempted once more and no more; when
\* that attempt fails too the pass is over: the failure is the last call, no
\* start was issued and nothing is reported.
C7_PullAndRetryOnce ==
    (InPass /\ state = "present" /\ count > Len(M0)) =>
        /\ Len(Calls({"pull"})) <= 1
        /\ Len(FailedCreates) <= 2
        /\ (FailedCreates = <<>>) => Calls({"pull"}) = <<>>
        /\ (FailedCreates # <<>> /\ pc # "pull") =>
              /\ Len(Calls({"pull"})) = 1
              /\ log[PullAt - 1] = Call("create", 0, "err")
        /\ (PullAt # 0 /\ log[PullAt].res = "ok") => changed
        /\ Len(CreatesAfterPull) <= count - Len(M0)
        /\ (PullAt # 0 /\ pc \in {"start", "inspect_new", "exit", "done"}) =>
              /\ Len(CreatesAfterPull) = count - Len(M0)
              /\ Len(FailedCreates) = 1
        /\ Len(FailedCreates) = 2 =>
              /\ pc = "fatal"
              /\ log[Len(log)] = Call("create", 0, "err")
              /\ Calls({"start"}) = <<>>
              /\ result = NoResult
              /\ started = 0

\* the retried creation failed on its second container
C7_Witness ==
    /\ pc = "fatal" /\ state = "present"
    /\ Len(FailedCreates) = 2
    /\ Len(CreatesAfterPull) = 2
    /\ Len(Calls({"pull"})) = 1

\* C2 (as claimed): at the end of every pass, changed is reported true exactly
\* when a create, start, stop, kill, restart or remove call was issued.
C2_ChangedIffOperationIssued ==
    pc = "done" => (result.changed <=> Calls(Mutating) # <<>>)

\* C6 (as claimed): a state=absent pass over a non-empty matching set in which
\* every call succeeds stops, waits for and removes every matching container,
\* so that none is left; the pass that follows it issues no call and reports no
\* change.
C6_AbsentRemovesAll ==
    /\ (pc = "done" /\ state = "absent" /\ M0 # <<>> /\ AllOk) =>
          /\ \A c \in Range(M0) :
                /\ CallsTo({"stop"}, c.Id) # <<>>
                /\ CallsTo({"wait"}, c.Id) # <<>>
                /\ CallsTo({"remove"}, c.Id) # <<>>
          /\ MNow = <<>>
    /\ (pc = "done" /\ state = "absent" /\ prev = "clean") =>
          /\ Calls(Lifecycle) = <<>>
          /\ result.changed = FALSE

\* the containers the stop+wait protocol was run over
Operand == IF state = "present" THEN Surplus ELSE M0

WaitPhaseOver ==
    /\ pc \in {"inspect", "remove", "exit", "done"}
    /\ state \in {"absent", "stop", "kill"} \/ (state = "present" /\ count < Len(M0))

\* C8 (as claimed): once the wait phase is over, a wait was issued to every
\* selected container, also when an earlier wait ended in a ValueError.
C8_WaitIssuedToEverySelected ==
    WaitPhaseOver => \A c \in Range(Operand) : CallsTo({"wait"}, c.Id) # <<>>

\* C9 (as claimed): a state=kill pass in which every call succeeds sends a kill
\* to every matching container, removes every one of them and reports killed =
\* the matching containers found not running after the kill (all of them, each
\* wait having returned).
C9_KillRemovesAll ==
    (pc = "done" /\ state = "kill" /\ AllOk) =>
        /\ \A c \in Range(M0) :
              /\ CallsTo({"kill"}, c.Id) # <<>>
              /\ CallsTo({"remove"}, c.Id) # <<>>
        /\ MNow = <<>>
        /\ result.killed = Len(M0)

\* C10 (as claimed): a state=restart pass issues a restart to every matching
\* container and reports restarted = the matching containers found running
\* after the restart.
C10_RestartCountsAll ==
    (pc = "done" /\ state = "restart") =>
        /\ \A c \in Range(M0) : CallsTo({"restart"}, c.Id) # <<>>
        /\ result.restarted = CountRunning(MNow, TRUE)

\* C11 (as claimed): a state=stop pass issues a stop to every matching
\* container, removes none and reports stopped = the matching containers, out
\* of the entire matching set, found not running after the stop.
C11_StopCountsAll ==
    (pc = "done" /\ state = "stop") =>
        /\ \A c \in Range(M0) : CallsTo({"stop"}, c.Id) # <<>>
        /\ Calls({"remove"}) = <<>>
        /\ Ids(rt) = Ids(rt0)
        /\ result.stopped = CountRunning(MNow, FALSE)

\* the part of an image reference before its first ":"
NameBeforeColon(s) ==
    LET colons == {k \in 1..Len(s) : s[k] = ":"}
        stop == IF colons = {} THEN Len(s) + 1
                ELSE CHOOSE k \in colons : \A j \in colons : k <= j
    IN  SubSeq(s, 1, stop - 1)

\* a command without its leading and trailing blanks
Trimmed(s) ==
    LET inked == {k \in 1..Len(s) : s[k] # " "}
    IN  IF inked = {} THEN <<>>
        ELSE SubSeq(s, CHOOSE k \in inked : \A j \in inked : k <= j,
                       CHOOSE k \in inked : \A j \in inked : k >= j)

\* the listed containers the desired image and command designate
Designated ==
    SelectSeq(rt0, LAMBDA c :
        /\ NameBeforeColon(c.Image) = NameBeforeColon(image)
        /\ (command = NoCommand \/ Trimmed(c.Command) = Trimmed(command)))

\* C12: the matching set computed at the start of a pass is exactly the listed
\* containers whose image name before the first ":" is the desired image's and,
\* when a command is given, whose trimmed command is the trimmed desired
\* command: the pass inspects these, in listing order, before anything else,
\* and they are its running_containers.
C12_MatchingSet ==
    (pc \notin {"idle", "failed"}) =>
        LET n == Len(Designated)
        IN  IF /\ pc = "fatal" /\ log # <<>> /\ Len(log) <= n
               /\ log[Len(log)] = Call("inspect", Designated[Len(log)].Id, "err")
            THEN \A k \in 1..Len(log) :
                     log[k].op = "inspect" /\ log[k].id = Designated[k].Id
            ELSE /\ Len(log) >= n
                 /\ \A k \in 1..n : log[k] = Call("inspect", Designated[k].Id, "ok")
                 /\ pc \in {"create", "stop", "kill", "restart"} =>
                       running_containers = [k \in 1..n |-> Entity(Designated[k])]
                 /\ delta = count - n

\* a container of another tag matched, one with another command did not
C12_Witness ==
    /\ pc \in {"create", "stop", "kill", "restart"}
    /\ command # NoCommand
    /\ Len(rt0) = 2 /\ Len(running_containers) = 1
    /\ \A c \in Range(rt0) : NameBeforeColon(c.Image) = <<"a">> /\ c.Image # image
    /\ \E c \in Range(rt0) : c.Command = <<"y">>

\* the two failures the code survives: a ValueError of a wait, and a create
\* that raises before any pull
Tolerated(k) ==
    \/ log[k] = Call("wait", log[k].id, "ValueError")
    \/ /\ log[k].op = "create"
       /\ \A j \in 1..(k - 1) : log[j].op # "pull"

OkIds(op) == {c.id : c \in Range(SelectSeq(log, LAMBDA c : c.op = op /\ c.res = "ok"))}

\* C13: a call that raises, other than a wait's ValueError and the first
\* failed create, is the last call of the pass: the pass is over, nothing is
\* reported, and what was applied before stays applied: the containers created
\* are still there, the containers removed are gone, nothing else was created
\* or removed.
C13_FailureAborts ==
    /\ \A k \in 1..Len(log) :
          (log[k].res # "ok" /\ ~Tolerated(k)) =>
              /\ k = Len(log)
              /\ pc = "fatal"
    /\ pc = "fatal" =>
          /\ log # <<>>
          /\ log[Len(log)].res = "err"
          /\ ~Tolerated(Len(log))
          /\ result = NoResult
          /\ Ids(rt) = (Ids(rt0) \cup OkIds("create")) \ OkIds("remove")
          /\ OkIds("remove") \subseteq Ids(rt0)
          /\ OkIds("create") \cap Ids(rt0) = {}

\* the second remove raised after the first container was removed
C13_Witness ==
    /\ pc = "fatal"
    /\ OkIds("remove") # {}
    /\ log[Len(log)].op = "remove"

\* a blank-separated token of s, possibly empty, that holds no ":"
HasTokenWithoutColon(s) ==
    s # <<>> /\
    \E a \in 1..(Len(s) + 1), b \in 0..Len(s) :
        /\ a <= b + 1
        /\ a = 1 \/ s[a - 1] = " "
        /\ b = Len(s) \/ s[b + 1] = " "
        /\ \A k \in a..b : s[k] # " " /\ s[k] # ":"

\* a size string ending in none of B (after a digit), KB, MB, GB, TB, PB
HasUnknownSuffix(m) ==
    /\ m.kind = "str"
    /\ LET s == m.text
           n == Len(s)
       IN  ~ \/ n >= 2 /\ s[n] = "B" /\ IsDigit(s[n - 1])
             \/ n >= 2 /\ s[n] = "B" /\ s[n - 1] \in {"K", "M", "G", "T", "P"}

\* v sorts before "0.3.3" as a string
SortsBelowMinimum(v) ==
    LET w == <<"0", ".", "3", ".", "3">>
    IN  /\ v # NoVersion
        /\ \E k \in 1..Len(w) :
              /\ \A j \in 1..(k - 1) : j <= Len(v) /\ v[j] = w[j]
              /\ k > Len(v) \/ Ord(v[k]) < Ord(w[k])

ConfigurationError ==
    \/ HasUnknownSuffix(config.memory_limit)
    \/ HasTokenWithoutColon(config.volumes)
    \/ HasTokenWithoutColon(config.lxc_conf)
    \/ SortsBelowMinimum(config.version)

\* C14: a memory size with an unknown suffix, a volume or LXC token without
\* ":" or a runtime version that sorts below "0.3.3" as a string ends the
\* invocation in a failure with no call issued and the runtime untouched; no
\* other invocation ends that way.
C14_ConfigurationErrorBeforeAnyCall ==
    InPass =>
        /\ ConfigurationError <=> pc = "failed"
        /\ pc = "failed" =>
              /\ log = <<>>
              /\ rt = rt0
              /\ result \in {NoResult, FailedResult}
              /\ ~changed

\* a runtime of version 0.10.0 was refused although containers match
C14_Witness ==
    /\ pc = "failed"
    /\ config.version = <<"0", ".", "1", "0", ".", "0">>
    /\ result = FailedResult
    /\ M0 # <<>>

\* C15 (as claimed): the list a completed state=present pass reports holds one
\* entity record, with that entity's identifier, for every matching container
\* that was there and was not removed and for every container the pass created
\* and started, none for a removed container, count records in all.
C15_FinalListIsDesiredSet ==
    (pc = "done" /\ state = "present") =>
        LET facts == result.facts
            kept == SelectSeq(M0, LAMBDA c : c.Id \notin OkIds("remove"))
        IN  /\ Len(facts) = count
            /\ \A k \in 1..Len(facts) : facts[k].kind = "entity"
            /\ \A k \in 1..Len(kept) : facts[k].Id = kept[k].Id
            /\ \A k \in 1..Len(containers) :
                  facts[Len(kept) + k].Id = containers[k].Id

\* C16 (as claimed): the size n followed by B becomes the integer n, n
\* followed by the k-th larger suffix (KB = 1 ... PB = 5) the integer
\* n * 1024 ** k, an integer stays what it is, and an unknown suffix ends in the
\* failure exit.
C16_SizeNormalization ==
    pc = "sized" =>
        \A n \in 0..MaxSize :
            /\ config.memory_limit = IntParam(n) => memory_limit = IntParam(n)
            /\ \A k \in 0..(Len(suffixes) - 1) :
                  config.memory_limit = StrParam(Digits(n) \o suffixes[k + 1]) =>
                      /\ memory_limit.kind = "int"
                      /\ memory_limit.val = Times1024Pow(n, k)
            /\ config.memory_limit = StrParam(Digits(n) \o <<"X", "B">>) =>
                  memory_limit.kind = "exit"

\* every input but the sizes in B is normalized as stated
SizeNormalizationButBytes ==
    (pc = "sized" /\ ~(config.memory_limit.kind = "str" /\ memory_limit.kind = "str"))
        => C16_SizeNormalization

\* the positions of the log holding a call of one of ops
At(ops) == {k \in 1..Len(log) : log[k].op \in ops}

\* the inspections after those of the matching loop
ReInspections == {k \in At({"inspect"}) : k > Len(M0)}

Removing ==
    /\ pc \notin {"idle", "failed"}
    /\ state \in {"absent", "kill"} \/ (state = "present" /\ count < Len(M0))

\* C17: in a pass that removes containers (present with delta < 0, absent,
\* kill) a stop or kill is issued to every selected container before any wait,
\* every wait comes before any re-inspection, a container is removed only after
\* its stop or kill and its re-inspection, and no remove precedes a stop or kill.
C17_PhasesInOrder ==
    Removing =>
        /\ \A w \in At({"wait"}) : \A c \in Range(Operand) :
              \E k \in At({"stop", "kill"}) : k < w /\ log[k].id = c.Id
        /\ \A w \in At({"wait"}) : \A k \in ReInspections : w < k
        /\ \A r \in At({"remove"}) :
              /\ \E k \in At({"stop", "kill"}) : k < r /\ log[k].id = log[r].id
              /\ \E k \in ReInspections : k < r /\ log[k].id = log[r].id
              /\ \A k \in At({"stop", "kill"}) : k < r

\* an absent pass over two containers: two stops, two waits, one of them
\* re-inspected and removed
C17_Witness ==
    /\ pc = "done"
    /\ state = "absent"
    /\ Len(Calls({"stop"})) = 2
    /\ Len(Calls({"wait"})) = 2
    /\ ReInspections # {}
    /\ OkIds("remove") # {}

\* C18 (as claimed): a present pass with delta > 0 that reaches its report
\* created exactly delta containers and started every container it created,
\* also when the first batch of creations failed midway and was retried after
\* the pull.
C18_EveryCreatedIsStarted ==
    (pc = "done" /\ state = "present" /\ count > Len(M0)) =>
        /\ Cardinality(OkIds("create")) = count - Len(M0)
        /\ \A id \in OkIds("create") : id \in OkIds("start")

\* the listed containers the desired image and command do not designate
Foreign == SelectSeq(rt0, LAMBDA c : c \notin Range(Designated))

Targeted == {"stop", "wait", "kill", "restart", "start", "remove"}

\* C19: every stop, wait, kill, restart, start and remove call of a pass is
\* aimed at a container of the matching set computed at its start or at one
\* the pass created; a listed container whose image name or command does not
\* match is the target of no such call and is left as it was.
C19_Frame ==
    (pc \notin {"idle", "failed"}) =>
        /\ \A k \in At(Targeted) :
              log[k].id \in Ids(Designated) \cup OkIds("create")
        /\ \A c \in Range(Foreign) :
              /\ \A k \in At(Lifecycle) : log[k].id # c.Id
              /\ c \in Range(rt)

\* a finished pass that stopped a container while another of the same image
\* name, with another command, was listed next to it
C19_Witness ==
    /\ pc = "done"
    /\ command # NoCommand
    /\ OkIds("stop") # {}
    /\ \E c \in Range(Foreign) : NameBeforeColon(c.Image) = NameBeforeColon(image)

\* the counters a branch may leave non-zero
Own(st) ==
    CASE st = "present" -> {"started", "stopped"}
      [] st \in {"absent", "stop"} -> {"stopped"}
      [] st = "kill" -> {"killed"}
      [] st = "restart" -> {"restarted"}

\* the call a counter counts the containers of
CountedCall(ctr) ==
    CASE ctr = "started" -> "start"
      [] ctr = "stopped" -> "stop"
      [] ctr = "killed" -> "kill"
      [] ctr = "restarted" -> "restart"

\* C20: the report of a pass has at most one of started, stopped, killed and
\* restarted non-zero, a counter of the selected state (present: started or
\* stopped, never both; absent and stop: stopped; kill: killed; restart:
\* restarted), and no counter exceeds the number of containers the branch
\* operated on.
C20_OneCounterOfTheBranch ==
    pc = "done" =>
        LET nonzero == {ctr \in {"started", "stopped", "killed", "restarted"} :
                           result[ctr] # 0}
        IN  /\ Cardinality(nonzero) <= 1
            /\ nonzero \subseteq Own(state)
            /\ \A ctr \in nonzero :
                  /\ result[ctr] > 0
                  /\ result[ctr] <= Cardinality(OkIds(CountedCall(ctr)))

\* a kill pass that reports a killed container
C20_Witness ==
    /\ pc = "done"
    /\ state = "kill"
    /\ result.killed > 0
    /\ result.stopped = 0

====
